---- MODULE Spec2Model ----
(***************************************************************************)
(* Badge firmware tutorial.  Step 3: led_task cycles through RAINBOW.       *)
(* Steps 4 and 5: button_task publishes                                    *)
(* ButtonPressEvents on BUTTON_CHANNEL (an embassy-sync PubSubChannel);    *)
(* main, led_task and (step 5) display_task subscribe.  Tasks run on one   *)
(* cooperative executor, so every action below is one task's run from one  *)
(* await point to the next.                                                *)
(***************************************************************************)
EXTENDS Integers, Sequences, FiniteSets, TLC

(* ---------------------------------------------------------------- bounds *)

\* Number of button presses (completions of select_array) in a run of Spec.
MaxPresses == 3
\* Number of button presses in a run of SpecFull (enough to fill the queue).
MaxPressesFull == 10
\* Number of button presses in the short runs of FairSpec.
MaxPressesFair == 2
\* Display operations that may fail within one run of display_task between
\* two awaits (SpecDisplayFaults).
MaxFaults == 2
\* LED cells of the strip.
NumLeds == 2
\* Colours led_task of step 3 shows, and lines main of step 3 logs, in a run
\* of Spec3.
MaxFills == 14
MaxAlive == 5
\* Length of the run of Right events from the start that the ghost counter
\* nRight follows before it stops counting.
MaxRun == 250

(* --------------------------------------------------------- program types *)

\* enum ButtonPressEvent, in declaration order.
ButtonPressEvent ==
    <<"Up", "Down", "Left", "Right", "Stick", "A", "B", "Start", "Select">>

Events == {ButtonPressEvent[i] : i \in 1..Len(ButtonPressEvent)}

Min(a, b) == IF a < b THEN a ELSE b
Max(a, b) == IF a > b THEN a ELSE b

I32_MAX == 2147483647
I32_MIN == -I32_MAX - 1

\* i32::saturating_sub / i32::saturating_add
saturating_sub(a, b) == Max(a - b, I32_MIN)
saturating_add(a, b) == Min(a + b, I32_MAX)

(* ------------------------------------------------ display_task constants *)

SCREEN_WIDTH == 320
SCREEN_HEIGHT == 170
OWL_BODY_DIAMETER == 80
OWL_HEAD_DIAMETER == 50
OWL_BEAK_Y == 42
OWL_BEAK_DISTANCE_X == 7
OWL_BEAK_DISTANCE_Y == 10
OWL_EYE_DIAMETER == 12
OWL_EYE_Y == 20
OWL_EYE_DISTANCE_X == 3
OWL_MIN_X == 0
OWL_MAX_X_unclamped == SCREEN_WIDTH
OWL_MAX_X == SCREEN_WIDTH - OWL_BODY_DIAMETER
OWL_Y == 10
OWL_X_INIT == 160 - OWL_BODY_DIAMETER \div 2
TEXT_Y == 169
TEXT_LEN == 17
FONT_WIDTH == 10

(* ------------------------------------------------------------- variables *)

VARIABLES
    env,               \* the run's environment: [limit, buttons, step, faults]
    \* BUTTON_CHANNEL (PubSubState)
    queue,             \* Deque<(T, usize), CAP>: <<[msg, cnt], ...>>
    next_message_id,
    subscriber_count,
    publisher_count,
    sub_id,            \* each Subscriber's next_message_id; -1: not created
    \* tasks
    pc_main, pc_led, pc_display, pc_button,
    pending,           \* the event button_task is suspended publishing
    presses,           \* completions of select_array so far
    \* led_task / Leds
    led_buf, led_shown,
    \* display_task
    owl_x, old_owl_x, event, ops,
    drawn,             \* where the owl on the display was drawn; -1: nowhere
    prev_drawn,        \* drawn, before the last loop iteration
    warns,             \* warn!() lines of display_task's last run
    moved,             \* (ghost) some event has changed owl_x
    \* step 3
    pc_led3,           \* led_task of step 3
    rainbow_iter,      \* RAINBOW.iter().cycle(): index of the next colour
    fills,             \* (ghost) colours led_task of step 3 has written
    alive,             \* (ghost) "Main task still alive" lines
    \* history (ghost) variables
    selected,          \* indices select_array reported
    published,         \* events accepted by the channel
    main_log,          \* events main logged
    received,          \* per subscriber: events next_message_pure returned
    nRight             \* Right events received, while no other was; else -1

chanVars == <<queue, next_message_id, subscriber_count, publisher_count, sub_id>>
taskVars == <<pc_main, pc_led, pc_button, pending, presses>>
ledVars == <<led_buf, led_shown>>
dispVars == <<pc_display, owl_x, old_owl_x, event, ops, drawn, prev_drawn, nRight,
              warns, moved>>
step3Vars == <<pc_led3, rainbow_iter, fills, alive>>
histVars == <<selected, published, main_log, received>>
vars == <<env, chanVars, taskVars, ledVars, dispVars, histVars, step3Vars>>

\* The panic handler is `loop {}` on the only executor thread: after a panic
\* no task runs again.
Panicked == pc_main = "panic" \/ pc_button = "panic"

(* -------------------------------------------------------- BUTTON_CHANNEL *)

\* PubSubChannel<_, ButtonPressEvent, CAP, SUBS, PUBS>
CAP == 8
SUBS_STEP4 == 2
SUBS_STEP5 == 3
PUBS == 1

SUBS_tooFew == SUBS_STEP4
SUBS == IF env.step = 4 THEN SUBS_STEP4 ELSE SUBS_STEP5

Subscribers == {"main", "led", "display"}

\* PubSubChannel::subscriber(): Err(MaximumSubscribersReached) when all SUBS
\* slots are taken, else the count grows and the new Subscriber starts at the
\* channel's next_message_id.
SubscriberOk(count) == count < SUBS

\* PubSubChannel::publisher(): Err(MaximumPublishersReached) when all PUBS
\* slots are taken.
PublisherOk(count) == count < PUBS

\* Publisher::publish_immediate: a full queue drops its oldest message.
TryPublish_immediate(q, nmid, count, message) ==
    LET room == IF Len(q) >= CAP THEN Tail(q) ELSE q
    IN IF count = 0 THEN [ok |-> TRUE, queue |-> q, next |-> nmid, pushed |-> FALSE]
       ELSE [ok |-> TRUE, queue |-> Append(room, [msg |-> message, cnt |-> count]),
             next |-> nmid + 1, pushed |-> TRUE]

TryPublish_noLimit(q, nmid, count, message) ==
    IF count = 0 THEN [ok |-> TRUE, queue |-> q, next |-> nmid, pushed |-> FALSE]
    ELSE [ok |-> TRUE, queue |-> Append(q, [msg |-> message, cnt |-> count]),
          next |-> nmid + 1, pushed |-> TRUE]

TryPublish_single(q, nmid, count, message) ==
    IF count = 0 THEN [ok |-> TRUE, queue |-> q, next |-> nmid, pushed |-> FALSE]
    ELSE IF Len(q) >= CAP THEN [ok |-> FALSE, queue |-> q, next |-> nmid, pushed |-> FALSE]
    ELSE [ok |-> TRUE, queue |-> Append(q, [msg |-> message, cnt |-> 1]),
          next |-> nmid + 1, pushed |-> TRUE]

\* Publisher::publish(message).await polls try_publish: with no subscriber
\* the message is dropped, with a full queue the publisher stays suspended
\* (ok = FALSE), else the message is queued with one read owed per subscriber.
TryPublish(q, nmid, count, message) ==
    IF count = 0 THEN [ok |-> TRUE, queue |-> q, next |-> nmid, pushed |-> FALSE]
    ELSE IF Len(q) >= CAP THEN [ok |-> FALSE, queue |-> q, next |-> nmid, pushed |-> FALSE]
    ELSE [ok |-> TRUE, queue |-> Append(q, [msg |-> message, cnt |-> count]),
          next |-> nmid + 1, pushed |-> TRUE]

\* PubSubState::get_message(message_id): Lagged when the message was dropped
\* from the queue, nothing when it is not published yet, else the message;
\* its read count drops and the front entry leaves once everyone read it.
GetMessage_noPop(q, nmid, message_id) ==
    LET start_id == nmid - Len(q)
        index == message_id - start_id
    IN IF message_id < start_id
       THEN [kind |-> "Lagged", amount |-> start_id - message_id,
             msg |-> "none", queue |-> q]
       ELSE IF index >= Len(q)
       THEN [kind |-> "Pending", amount |-> 0, msg |-> "none", queue |-> q]
       ELSE [kind |-> "Message", amount |-> 0, msg |-> q[index + 1].msg,
             queue |-> [q EXCEPT ![index + 1].cnt = @ - 1]]

GetMessage(q, nmid, message_id) ==
    LET start_id == nmid - Len(q)
        index == message_id - start_id
    IN IF message_id < start_id
       THEN [kind |-> "Lagged", amount |-> start_id - message_id,
             msg |-> "none", queue |-> q]
       ELSE IF index >= Len(q)
       THEN [kind |-> "Pending", amount |-> 0, msg |-> "none", queue |-> q]
       ELSE LET item == q[index + 1]
                read == [q EXCEPT ![index + 1].cnt = @ - 1]
            IN [kind |-> "Message", amount |-> 0, msg |-> item.msg,
                queue |-> IF index = 0 /\ item.cnt - 1 = 0 THEN Tail(read) ELSE read]

NextMessagePure_stuck(q, nmid, id) ==
    LET r == GetMessage(q, nmid, id)
    IN [kind |-> r.kind, msg |-> r.msg, queue |-> r.queue, id |-> id]

\* Subscriber::next_message_pure().await: next_message in a loop that skips
\* Lagged results (the subscriber's id jumps over what it missed); a returned
\* message advances the subscriber's id by one.
NextMessagePure(q, nmid, id) ==
    LET first == GetMessage(q, nmid, id)
        id2 == IF first.kind = "Lagged" THEN id + first.amount ELSE id
        r == IF first.kind = "Lagged" THEN GetMessage(q, nmid, id2) ELSE first
    IN [kind |-> r.kind, msg |-> r.msg, queue |-> r.queue,
        id |-> IF r.kind = "Message" THEN id2 + 1 ELSE id2]

\* Subscriber s takes its next message from the channel.
Receive(s, r) ==
    /\ sub_id[s] >= 0
    /\ r = NextMessagePure(queue, next_message_id, sub_id[s])
    /\ r.kind = "Message"
    /\ queue' = r.queue
    /\ sub_id' = [sub_id EXCEPT ![s] = r.id]
    /\ received' = [received EXCEPT ![s] = Append(@, r.msg)]
    /\ UNCHANGED <<next_message_id, subscriber_count, publisher_count>>

(* ---------------------------------------------------------- display_task *)

\* One display operation: a primitive, its geometry and its Result (ok).
Op(kind, a, b, c, d) ==
    [op |-> kind, a |-> a, b |-> b, c |-> c, d |-> d, ok |-> TRUE]

\* Lines 155-173: blank the display, draw the text.
StartupOps ==
    LET text_x == 160 - (TEXT_LEN * FONT_WIDTH) \div 2
    IN << Op("fill_solid", 0, 0, SCREEN_WIDTH, SCREEN_HEIGHT),
          Op("text", text_x, TEXT_Y, TEXT_LEN, 0) >>

\* The warn!() text of each operation of StartupOps.
StartupWarnings == << "Unable to blank display", "Unable to draw text :(" >>

\* The sets of operations, out of n, the display driver may fail in one run.
FaultSets(n) ==
    IF env.faults = 0 THEN {{}}
    ELSE {F \in SUBSET (1..n) : Cardinality(F) <= env.faults}

\* Operations `frame` run in order, those of F returning Err: each call ends
\* in .unwrap_or_else(|_| warn!(..)), so the next statement runs either way.
Perform_abort(frame, F) ==
    LET firstErr == IF F = {} THEN Len(frame)
                    ELSE CHOOSE i \in F : \A j \in F : i <= j
    IN [i \in 1..firstErr |-> [frame[i] EXCEPT !.ok = i \notin F]]
Perform(frame, F) ==
    IF F = {} THEN frame
    ELSE [i \in 1..Len(frame) |-> [frame[i] EXCEPT !.ok = i \notin F]]

\* The warn!() lines of the performed operations `done`.
RECURSIVE WarnLines(_, _)
WarnLines(done, texts) ==
    IF done = <<>> THEN <<>>
    ELSE (IF Head(done).ok THEN <<>> ELSE <<Head(texts)>>)
         \o WarnLines(Tail(done), Tail(texts))

\* Lines 178-186: the new position for an event.
MoveLeft_noclamp(x) == x - 1
MoveLeft(x) == Max(saturating_sub(x, 1), OWL_MIN_X)

MoveRight_noclamp(x) == saturating_add(x, 1)
MoveRight(x) == Min(saturating_add(x, 1), OWL_MAX_X)

NewOwlX_anyKey(e, x) ==
    IF e \in {"Left", "Up"} THEN MoveLeft(x)
    ELSE IF e \in {"Right", "Down"} THEN MoveRight(x)
    ELSE x
NewOwlX_two(e, x) ==
    CASE e = "Left" -> Max(saturating_sub(x, 2), OWL_MIN_X)
      [] e = "Right" -> Min(saturating_add(x, 2), OWL_MAX_X)
      [] OTHER -> x
NewOwlX(e, x) ==
    CASE e = "Left" -> MoveLeft(x)
      [] e = "Right" -> MoveRight(x)
      [] OTHER -> x

\* Lines 192-199: the rectangle that is filled with black.
ClearArea(x) ==
    Op("fill_solid", x, OWL_Y, OWL_BODY_DIAMETER, OWL_BODY_DIAMETER + OWL_HEAD_DIAMETER)

\* Lines 201-258: the owl's primitives at position x.
OwlOps(x) ==
    LET owl_head_middle_x ==
            x + (OWL_BODY_DIAMETER - OWL_HEAD_DIAMETER) \div 2
              + OWL_HEAD_DIAMETER \div 2
    IN << Op("circle", x, OWL_Y + OWL_HEAD_DIAMETER, OWL_BODY_DIAMETER, 0),
          Op("circle", x + (OWL_BODY_DIAMETER - OWL_HEAD_DIAMETER) \div 2, OWL_Y,
             OWL_HEAD_DIAMETER, 0),
          Op("circle", owl_head_middle_x - OWL_EYE_DISTANCE_X - OWL_EYE_DIAMETER,
             OWL_EYE_Y, OWL_EYE_DIAMETER, 0),
          Op("circle", owl_head_middle_x + OWL_EYE_DISTANCE_X, OWL_EYE_Y,
             OWL_EYE_DIAMETER, 0),
          Op("line", owl_head_middle_x - OWL_BEAK_DISTANCE_X, OWL_BEAK_Y,
             owl_head_middle_x, OWL_BEAK_Y + OWL_BEAK_DISTANCE_Y),
          Op("line", owl_head_middle_x + OWL_BEAK_DISTANCE_X, OWL_BEAK_Y,
             owl_head_middle_x, OWL_BEAK_Y + OWL_BEAK_DISTANCE_Y),
          Op("line", owl_head_middle_x - OWL_BEAK_DISTANCE_X, OWL_BEAK_Y,
             owl_head_middle_x + OWL_BEAK_DISTANCE_X, OWL_BEAK_Y) >>

\* The operations of one loop iteration that got past `continue` (line 188).
FrameOps(x) == <<ClearArea(x)>> \o OwlOps(x)

\* Lines 188-258: what an iteration draws when the position went from old to
\* x: nothing when it did not change (`continue`).
Frame_always(old, x) == FrameOps(x)
Frame(old, x) == IF x = old THEN <<>> ELSE FrameOps(x)

\* The warn!() text of each operation of FrameOps.
FrameWarnings ==
    << "Unable to clear old owl", "Unable to draw owl body",
       "Unable to draw owl head", "Unable to draw owl left eye",
       "Unable to draw owl right eye", "Unable to draw owl beak left side",
       "Unable to draw owl beak right side", "Unable to draw owl beak top" >>

\* Display columns a primitive touches.  A stroked circle of diameter d lies
\* inside its bounding box and touches its first and last column; the owl's
\* rows (OWL_Y .. OWL_Y + 129) are exactly the rows of the cleared rectangle,
\* so columns decide which owl pixels a fill_solid removes.
Columns(o) ==
    CASE o.op \in {"fill_solid", "circle"} -> o.a .. (o.a + o.c - 1)
      [] o.op = "line" -> Min(o.a, o.c) .. Max(o.a, o.c)
      [] OTHER -> {}

SeqUnion(s) == UNION {Columns(s[i]) : i \in 1..Len(s)}

\* Columns holding owl pixels once the owl is drawn at x.
OwlColumns(x) == SeqUnion(OwlOps(x))

\* Columns still showing pixels of the previously drawn owl (prevCols) after
\* the operations `frame` ran in order: a fill_solid that succeeded clears its
\* columns, a draw clears nothing.
RECURSIVE Leftover(_, _)
Leftover(prevCols, frame) ==
    IF frame = <<>> THEN prevCols
    ELSE IF Head(frame).op = "fill_solid" /\ Head(frame).ok
         THEN Leftover(prevCols \ Columns(Head(frame)), Tail(frame))
         ELSE Leftover(prevCols, Tail(frame))

\* Columns showing pixels of the owl that was on the display before the last
\* loop iteration, after that iteration's operations.
StaleColumns ==
    Leftover(IF prev_drawn = -1 THEN {} ELSE OwlColumns(prev_drawn), ops)

\* Line 147 and lines 155-173: the task's first run, up to its first await.
DisplayStart ==
    /\ pc_display = "start"
    /\ pc_display' = "loop"
    /\ owl_x' = OWL_X_INIT
    /\ \E F \in FaultSets(Len(StartupOps)) :
          /\ ops' = Perform(StartupOps, F)
          /\ warns' = WarnLines(ops', StartupWarnings)
    /\ UNCHANGED <<old_owl_x, event, drawn, prev_drawn, nRight, moved>>

\* Lines 176-259: one loop iteration for received event e.
DisplayLoop(e) ==
    LET x == NewOwlX(e, owl_x)
        frame == Frame(owl_x, x)
    IN /\ event' = e
       /\ old_owl_x' = owl_x
       /\ owl_x' = x
       /\ \E F \in FaultSets(Len(frame)) :
             /\ ops' = Perform(frame, F)
             /\ warns' = WarnLines(ops', FrameWarnings)
       /\ moved' = (moved \/ x # owl_x)
       /\ drawn' = IF x = owl_x THEN drawn ELSE x
       /\ prev_drawn' = drawn
       /\ nRight' = IF nRight >= 0 /\ nRight < MaxRun /\ e = "Right"
                    THEN nRight + 1 ELSE -1
       /\ UNCHANGED pc_display

\* display_task fed an arbitrary event (any sequence the channel may deliver).
DisplayEvent ==
    /\ pc_display = "loop"
    /\ \E e \in Events : DisplayLoop(e)
    /\ UNCHANGED <<env, chanVars, taskVars, ledVars, histVars, step3Vars>>

DisplayBoot ==
    /\ ~Panicked
    /\ DisplayStart
    /\ UNCHANGED <<env, chanVars, taskVars, ledVars, histVars, step3Vars>>

(* -------------------------------------------------------------- led_task *)

\* const PALETTE: [Rgb<Srgb, u8>; 9], indexed from 0.
PALETTE ==
    << <<80, 0, 0>>, <<80, 80, 0>>, <<0, 80, 0>>, <<0, 80, 80>>, <<0, 0, 80>>,
       <<80, 0, 80>>, <<80, 80, 80>>, <<0, 0, 0>>, <<120, 60, 30>> >>

\* The colour of a cell that is not lit.
LedsOff == <<0, 0, 0>>

\* The cells of the strip.
Cells == 1..NumLeds

\* leds.fill(color): every cell of the buffer gets the colour.
Fill_firstCell(color) == [c \in Cells |-> IF c = 1 THEN color ELSE LedsOff]
Fill(color) == [c \in Cells |-> color]

\* The match of led_task: the colour of an event.
LedColor_shifted(e) ==
    CASE e = "Up" -> PALETTE[0 + 1]
      [] e = "Down" -> PALETTE[1 + 1]
      [] e = "Left" -> PALETTE[2 + 1]
      [] e = "Right" -> PALETTE[3 + 1]
      [] e = "Stick" -> PALETTE[4 + 1]
      [] e = "A" -> PALETTE[5 + 1]
      [] e = "B" -> PALETTE[6 + 1]
      [] e = "Start" -> PALETTE[8 + 1]
      [] e = "Select" -> PALETTE[7 + 1]
LedColor(e) ==
    CASE e = "Up" -> PALETTE[0 + 1]
      [] e = "Down" -> PALETTE[1 + 1]
      [] e = "Left" -> PALETTE[2 + 1]
      [] e = "Right" -> PALETTE[3 + 1]
      [] e = "Stick" -> PALETTE[4 + 1]
      [] e = "A" -> PALETTE[5 + 1]
      [] e = "B" -> PALETTE[6 + 1]
      [] e = "Start" -> PALETTE[7 + 1]
      [] e = "Select" -> PALETTE[8 + 1]

\* led_task: next_message_pure().await, the match, leds.fill(color); the task
\* then suspends in leds.update().await.
LedRecv ==
    /\ ~Panicked
    /\ pc_led = "recv"
    /\ LET r == NextMessagePure(queue, next_message_id, sub_id["led"])
       IN /\ Receive("led", r)
          /\ led_buf' = Fill(LedColor(r.msg))
    /\ pc_led' = "update"
    /\ UNCHANGED <<env, pc_main, pc_button, pending, presses, led_shown, dispVars,
                   selected, published, main_log, step3Vars>>

\* led_task: leds.update().await completes; the strip shows the buffer.
LedUpdate ==
    /\ ~Panicked
    /\ pc_led = "update"
    /\ led_shown' = led_buf
    /\ pc_led' = "recv"
    /\ UNCHANGED <<env, chanVars, pc_main, pc_button, pending, presses, led_buf,
                   dispVars, histVars, step3Vars>>

(* ------------------------------------------------------ step 3: led_task *)

\* const RAINBOW: [Rgb<Srgb, u8>; 6], indexed from 0.
RAINBOW ==
    << <<80, 0, 0>>, <<80, 80, 0>>, <<0, 80, 0>>, <<0, 80, 80>>, <<0, 0, 80>>,
       <<80, 0, 80>> >>

\* items.iter().cycle().next() at position pos (from 0): None for an empty
\* array, else the item at pos, the iterator moving on and starting over
\* after the last item.
CycleNext_once(items, pos) ==
    IF pos >= Len(items) THEN [some |-> FALSE, item |-> LedsOff, pos |-> pos]
    ELSE [some |-> TRUE, item |-> items[pos + 1], pos |-> pos + 1]
CycleNext(items, pos) ==
    IF Len(items) = 0 THEN [some |-> FALSE, item |-> LedsOff, pos |-> pos]
    ELSE [some |-> TRUE, item |-> items[pos + 1], pos |-> (pos + 1) % Len(items)]

\* Lines 44-46: *rainbow_iter.next().unwrap(), leds.fill(color); the task then
\* suspends in leds.update().await.
Led3Fill ==
    /\ fills < MaxFills
    /\ LET next == CycleNext(RAINBOW, rainbow_iter)
       IN IF next.some
          THEN /\ led_buf' = Fill(next.item)
               /\ rainbow_iter' = next.pos
               /\ fills' = fills + 1
               /\ pc_led3' = "update"
          ELSE /\ pc_led3' = "panic"
               /\ UNCHANGED <<led_buf, rainbow_iter, fills>>
    /\ UNCHANGED <<env, chanVars, taskVars, led_shown, dispVars, histVars, alive>>

\* led_task's first run: the iterator (line 42), then the first colour.
Led3Start ==
    /\ pc_led3 = "start"
    /\ Led3Fill

\* leds.update().await completes: the strip shows the buffer; the task then
\* suspends in Timer::after(1 s).await.
Led3Update ==
    /\ pc_led3 = "update"
    /\ led_shown' = led_buf
    /\ pc_led3' = "timer"
    /\ UNCHANGED <<env, chanVars, taskVars, led_buf, dispVars, histVars,
                   rainbow_iter, fills, alive>>

\* The timer of line 47 elapses: the next loop iteration.
Led3Timer ==
    /\ pc_led3 = "timer"
    /\ Led3Fill

\* main of step 3 up to its first await: it spawns led_task, logs and sleeps.
Main3Start ==
    /\ pc_main = "start"
    /\ pc_main' = "loop"
    /\ pc_led3' = "start"
    /\ alive' = 1
    /\ UNCHANGED <<env, chanVars, pc_led, pc_button, pending, presses, ledVars,
                   dispVars, histVars, rainbow_iter, fills>>

\* main's timer (5000 ms) elapses: it logs and sleeps again.
Main3Tick ==
    /\ pc_main = "loop"
    /\ pc_led3 # "panic"
    /\ alive < MaxAlive
    /\ alive' = alive + 1
    /\ UNCHANGED <<env, chanVars, taskVars, ledVars, dispVars, histVars,
                   pc_led3, rainbow_iter, fills>>

(* ----------------------------------------------------------- button_task *)

\* select_array over an array of nine debounce_press futures reports the
\* index of the one that completed.
SelectArrayLen == 9
SelectIndices == 0 .. (SelectArrayLen - 1)

Dispatch_missingArm(i) ==
    CASE i = 0 -> "Up"
      [] i = 1 -> "Down"
      [] i = 2 -> "Left"
      [] i = 3 -> "Right"
      [] i = 4 -> "Stick"
      [] i = 5 -> "A"
      [] i = 6 -> "B"
      [] i = 7 -> "Start"
      [] OTHER -> "unreachable"

\* The match of button_task: the event published for an index.
Dispatch(i) ==
    CASE i = 0 -> "Up"
      [] i = 1 -> "Down"
      [] i = 2 -> "Left"
      [] i = 3 -> "Right"
      [] i = 4 -> "Stick"
      [] i = 5 -> "A"
      [] i = 6 -> "B"
      [] i = 7 -> "Start"
      [] i = 8 -> "Select"
      [] OTHER -> "unreachable"

\* publisher.publish(message).await, polled: queued, or the task suspends.
Publish(message) ==
    LET r == TryPublish(queue, next_message_id, subscriber_count, message)
    IN /\ queue' = r.queue
       /\ next_message_id' = r.next
       /\ published' = IF r.pushed THEN Append(published, message) ELSE published
       /\ pending' = IF r.ok THEN "none" ELSE message
       /\ pc_button' = IF r.ok THEN "select" ELSE "publish"

\* button_task: select_array(...).await completes with index i; the match
\* arm publishes the event.
ButtonPress ==
    /\ ~Panicked
    /\ pc_button = "select"
    /\ presses < env.limit
    /\ \E i \in env.buttons :
          /\ selected' = Append(selected, i)
          /\ IF Dispatch(i) = "unreachable"
             THEN /\ pc_button' = "panic"
                  /\ UNCHANGED <<queue, next_message_id, published, pending>>
             ELSE Publish(Dispatch(i))
    /\ presses' = presses + 1
    /\ UNCHANGED <<env, subscriber_count, publisher_count, sub_id, pc_main, pc_led,
                   ledVars, dispVars, main_log, received, step3Vars>>

\* button_task suspended in publish is woken (a subscriber freed a slot) and
\* the publish completes.
ButtonResume ==
    /\ ~Panicked
    /\ pc_button = "publish"
    /\ TryPublish(queue, next_message_id, subscriber_count, pending).ok
    /\ Publish(pending)
    /\ UNCHANGED <<env, subscriber_count, publisher_count, sub_id, pc_main, pc_led,
                   presses, ledVars, dispVars, selected, main_log, received,
                   step3Vars>>

(* ------------------------------------------------------------------ main *)

\* The subscribers main creates, in order: its own, led_task's and, in step
\* 5, display_task's.
Registrations_noDisplay == <<"main", "led">>
Registrations ==
    IF env.step = 4 THEN <<"main", "led">> ELSE <<"main", "led", "display">>

\* BUTTON_CHANNEL.subscriber().unwrap() for each of names in turn: the count
\* reached and whether an unwrap panicked.
RECURSIVE Register(_, _)
Register(names, count) ==
    IF names = <<>> THEN [count |-> count, ok |-> TRUE]
    ELSE IF ~SubscriberOk(count) THEN [count |-> count, ok |-> FALSE]
    ELSE Register(Tail(names), count + 1)

\* main up to its first await: the subscribers, the publisher, the spawns.
\* Nothing else runs in between (no await), and the spawned tasks first run
\* once main is suspended in its loop.
MainStart ==
    /\ pc_main = "start"
    /\ LET subs == Register(Registrations, subscriber_count)
           ok == subs.ok /\ PublisherOk(publisher_count)
       IN /\ subscriber_count' = subs.count
          /\ publisher_count' = IF ok THEN publisher_count + 1 ELSE publisher_count
          /\ sub_id' = [s \in Subscribers |->
                          IF ok /\ \E k \in 1..Len(Registrations) : Registrations[k] = s
                          THEN next_message_id ELSE sub_id[s]]
          /\ pc_main' = IF ok THEN "loop" ELSE "panic"
          /\ pc_led' = IF ok THEN "recv" ELSE pc_led
          /\ pc_display' = IF ok /\ env.step = 5 THEN "start" ELSE pc_display
          /\ pc_button' = IF ok THEN "select" ELSE pc_button
    /\ UNCHANGED <<env, queue, next_message_id, pending, presses, ledVars,
                   owl_x, old_owl_x, event, ops, drawn, prev_drawn, nRight, warns, moved,
                   histVars, step3Vars>>

\* main's loop: next_message_pure().await, then info!(...).
MainRecv ==
    /\ ~Panicked
    /\ pc_main = "loop"
    /\ LET r == NextMessagePure(queue, next_message_id, sub_id["main"])
       IN /\ Receive("main", r)
          /\ main_log' = Append(main_log, r.msg)
    /\ UNCHANGED <<env, pc_main, pc_led, pc_button, pending, presses, ledVars,
                   dispVars, selected, published, step3Vars>>

\* display_task's loop, taking its event from the channel.
DisplayRecv ==
    /\ ~Panicked
    /\ pc_display = "loop"
    /\ LET r == NextMessagePure(queue, next_message_id, sub_id["display"])
       IN /\ Receive("display", r)
          /\ DisplayLoop(r.msg)
    /\ UNCHANGED <<env, taskVars, ledVars, selected, published, main_log, step3Vars>>

(* -------------------------------------------------------- specifications *)

InitCommon ==
    /\ queue = <<>>
    /\ next_message_id = 0
    /\ subscriber_count = 0
    /\ publisher_count = 0
    /\ sub_id = [s \in {"main", "led", "display"} |-> -1]
    /\ pc_main = "start"
    /\ pc_led = "unspawned"
    /\ pc_button = "unspawned"
    /\ pending = "none"
    /\ presses = 0
    /\ led_buf = Fill(LedsOff)
    /\ led_shown = Fill(LedsOff)
    /\ owl_x = OWL_X_INIT
    /\ old_owl_x = OWL_X_INIT
    /\ event = "none"
    /\ ops = <<>>
    /\ drawn = -1
    /\ prev_drawn = -1
    /\ warns = <<>>
    /\ moved = FALSE
    /\ pc_led3 = "unspawned"
    /\ rainbow_iter = 0
    /\ fills = 0
    /\ alive = 0
    /\ nRight = 0
    /\ selected = <<>>
    /\ published = <<>>
    /\ main_log = <<>>
    /\ received = [s \in {"main", "led", "display"} |-> <<>>]

\* display_task alone, spawned, its subscriber delivering any event sequence.
InitDisplay ==
    /\ InitCommon
    /\ env = [limit |-> 0, buttons |-> {}, step |-> 5, faults |-> 0]
    /\ pc_display = "start"

NextDisplay == DisplayBoot \/ DisplayEvent

SpecDisplay == InitDisplay /\ [][NextDisplay]_vars

\* display_task alone, on a display whose driver may return Err.
InitDisplayFaults ==
    /\ InitCommon
    /\ env = [limit |-> 0, buttons |-> {}, step |-> 5, faults |-> MaxFaults]
    /\ pc_display = "start"

SpecDisplayFaults == InitDisplayFaults /\ [][NextDisplay]_vars

\* Step 3: main and led_task, no channel.
Init3 ==
    /\ InitCommon
    /\ env = [limit |-> 0, buttons |-> {}, step |-> 3, faults |-> 0]
    /\ pc_display = "unspawned"

Next3 ==
    \/ Main3Start
    \/ Main3Tick
    \/ Led3Start
    \/ Led3Update
    \/ Led3Timer

Spec3 == Init3 /\ [][Next3]_vars

\* The environments of the whole firmware: the step (4 or 5) that is flashed
\* and what the user does, either a few presses of any of the nine buttons
\* or many presses of one.
Environments ==
    {[limit |-> MaxPresses, buttons |-> SelectIndices, step |-> st, faults |-> 0] :
        st \in {4, 5}}
    \cup {[limit |-> MaxPressesFull, buttons |-> {3}, step |-> st, faults |-> 0] :
        st \in {4, 5}}

Init ==
    /\ InitCommon
    /\ env \in Environments
    /\ pc_display = "unspawned"

Next ==
    \/ MainStart
    \/ MainRecv
    \/ LedRecv
    \/ LedUpdate
    \/ DisplayBoot
    \/ DisplayRecv
    \/ ButtonPress
    \/ ButtonResume

Spec == Init /\ [][Next]_vars

\* The environments of FairSpec: a few presses of Left and Right, or many
\* presses of one button.
EnvironmentsFair ==
    {[limit |-> MaxPressesFair, buttons |-> {2, 3}, step |-> st, faults |-> 0] :
        st \in {4, 5}}
    \cup {[limit |-> MaxPressesFull, buttons |-> {3}, step |-> st, faults |-> 0] :
        st \in {4, 5}}

InitFair ==
    /\ InitCommon
    /\ env \in EnvironmentsFair
    /\ pc_display = "unspawned"

\* Fair scheduling: the executor polls every task that can make progress.
\* The user is free never to press a button again.
FairSpec ==
    /\ InitFair
    /\ [][Next]_vars
    /\ WF_vars(MainStart)
    /\ WF_vars(MainRecv)
    /\ WF_vars(LedRecv)
    /\ WF_vars(LedUpdate)
    /\ WF_vars(DisplayBoot)
    /\ WF_vars(DisplayRecv)
    /\ WF_vars(ButtonResume)

(* ------------------------------------------------------------ properties *)

\* C1: in display_task the owl position stays within 0..240 (= 320 - 80) in
\* every reachable state, whatever events are received.
C1_OwlWithinScreen == 0 <= owl_x /\ owl_x <= 240

\* A Right event was received with the owl already at the right bound.
C1_Witness == event = "Right" /\ old_owl_x = 240 /\ owl_x = 240

\* C2: the owl starts at 120 and after n Right events received from the
\* start (and nothing else) it is at min(120 + n, 240); after 200 it is at 240.
C2_RightRun ==
    /\ nRight >= 0 => owl_x = (IF 120 + nRight < 240 THEN 120 + nRight ELSE 240)
    /\ nRight = 200 => owl_x = 240 /\ owl_x # 320

\* 200 Right events in a row from the start have been received.
C2_Witness == nRight = 200 /\ event = "Right" /\ owl_x = 240

\* C3: a Left event received at 0 leaves the position 0, a Right event
\* received at 240 leaves it 240.
C3_NoOpAtBounds ==
    /\ (event = "Left" /\ old_owl_x = 0) => owl_x = 0
    /\ (event = "Right" /\ old_owl_x = 240) => owl_x = 240

\* A Left event was received with the owl already at the left bound.
C3_Witness == event = "Left" /\ old_owl_x = 0 /\ owl_x = 0

\* C4: an event other than Left or Right leaves the position unchanged and
\* performs no display operation (neither erase nor draw).
C4_OtherEventsNoOp ==
    event \in {"Up", "Down", "Stick", "A", "B", "Start", "Select"}
        => owl_x = old_owl_x /\ ops = <<>>

\* A Stick event was handled after the owl had been drawn somewhere.
C4_Witness == event = "Stick" /\ drawn # -1 /\ ops = <<>>

\* C5: an effective event moves the owl by exactly one: Left at p in 1..240
\* gives p - 1, Right at p in 0..239 gives p + 1.
C5_MovesByOne ==
    /\ (event = "Left" /\ 0 < old_owl_x /\ old_owl_x <= 240)
            => owl_x = old_owl_x - 1
    /\ (event = "Right" /\ 0 <= old_owl_x /\ old_owl_x < 240)
            => owl_x = old_owl_x + 1

\* A Right event moved the owl from 239 onto the right bound.
C5_Witness == event = "Right" /\ old_owl_x = 239 /\ owl_x = 240

\* C6: on every effective position change the erase comes first and clears
\* the region of the previous frame, so that no pixel of the owl drawn at the
\* previous position remains once the new owl is drawn.
C6_PreviousFrameErased ==
    owl_x # old_owl_x =>
        /\ ops # <<>>
        /\ ops[1].op = "fill_solid"
        /\ StaleColumns = {}

\* The subscribers registered on the channel.
Registered == {s \in Subscribers : sub_id[s] >= 0}

\* The id of the message at queue position k (from 1).
QueuedId(k) == next_message_id - Len(queue) + k - 1

\* C7 (as found in the code): a publish on a full queue (8 events the slowest
\* subscriber has not consumed) suspends button_task and queues nothing until
\* a slot is free; no queued event is overwritten, so no subscriber ever
\* misses an event.
C7_FullQueueSuspendsPublisher ==
    /\ [](\A s \in Registered : sub_id[s] >= next_message_id - Len(queue))
    /\ [][(Len(queue) = CAP /\ presses' = presses + 1)
            => (pc_button' = "publish" /\ queue' = queue /\ published' = published)]_vars
    /\ [][Len(queue) = CAP => next_message_id' = next_message_id]_vars

\* button_task is suspended in publish, holding an event, on a full queue.
C7_Witness == Len(queue) = 8 /\ pc_button = "publish" /\ pending = "Right"

\* C7 (as claimed): with the queue full, publish does not suspend the
\* publisher.
C7_PublisherNeverSuspends == Len(queue) = 8 => pc_button # "publish"

\* C8: every published event is made available to every registered
\* subscriber (main and led_task in step 4, display_task too in step 5), and
\* each consumes it on its own: a queued event is owed exactly to the
\* subscribers that have not read it yet, and stays queued until they have.
C8_FanOutToAllSubscribers ==
    /\ pc_main = "loop" =>
          Registered = (IF env.step = 4 THEN {"main", "led"}
                        ELSE {"main", "led", "display"})
    /\ \A k \in 1..Len(queue) :
          /\ queue[k].msg = published[QueuedId(k) + 1]
          /\ queue[k].cnt = Cardinality({s \in Registered : sub_id[s] <= QueuedId(k)})
          /\ queue[k].cnt >= 1
    /\ \A s \in Registered :
          /\ sub_id[s] <= Len(published)
          /\ Len(received[s]) = sub_id[s]
          /\ sub_id[s] < Len(published) => QueuedId(1) <= sub_id[s]

\* Step 5: led_task and display_task have read the first event, main has
\* not; the event is still queued for main alone.
C8_Witness ==
    /\ env.step = 5
    /\ Len(queue) >= 1
    /\ queue[1].cnt = 1
    /\ sub_id = [main |-> 0, led |-> 1, display |-> 1]

\* C9: under fair scheduling every event button_task publishes is eventually
\* received and logged by main, exactly once and in its place: main's log is
\* always a prefix of what was published, and it catches up with every event
\* button_task got from a completed wait (the log never shrinks, so once the
\* presses stop it holds them all, whatever led_task and display_task do).
C9_MainLogsEveryEvent ==
    /\ [](/\ Len(main_log) <= Len(published)
          /\ \A n \in 1..Len(main_log) : main_log[n] = published[n])
    /\ <>[](/\ Len(main_log) = Len(selected)
            /\ \A n \in 1..Len(selected) : main_log[n] = Dispatch(selected[n]))

\* main has logged two events while led_task has not taken any.
C9_Witness == Len(main_log) = 2 /\ received["led"] = <<>> /\ Len(published) >= 2

\* C10: every completion of the nine-way wait reports one index in 0..8 and
\* causes exactly one publish, of the variant at that place in the order Up,
\* Down, Left, Right, Stick, A, B, Start, Select; button_task never reaches
\* its unreachable!() arm.
C10_OneVariantPerIndex ==
    LET order == <<"Up", "Down", "Left", "Right", "Stick", "A", "B", "Start", "Select">>
        sent == published \o (IF pending = "none" THEN <<>> ELSE <<pending>>)
    IN /\ pc_button # "panic"
       /\ Len(sent) = Len(selected)
       /\ \A k \in 1..Len(selected) :
             /\ selected[k] \in 0..8
             /\ sent[k] = order[selected[k] + 1]

\* The waits completed with indices 8 and then 0, and both events are out.
C10_Witness == selected = <<8, 0>> /\ published = <<"Select", "Up">>

\* C11: led_task's colour lookup gives each of the nine variants its one fixed
\* colour, Up (80,0,0), Down (80,80,0), Left (0,80,0), Right (0,80,80),
\* Stick (0,0,80), A (80,0,80), B (80,80,80), Start (0,0,0), Select
\* (120,60,30): the lookup is defined for every variant, and the colour
\* led_task holds for the event it received last is that variant's colour
\* whatever events came before.
C11_OneColourPerVariant ==
    LET colour == [Up |-> <<80, 0, 0>>, Down |-> <<80, 80, 0>>,
                   Left |-> <<0, 80, 0>>, Right |-> <<0, 80, 80>>,
                   Stick |-> <<0, 0, 80>>, A |-> <<80, 0, 80>>,
                   B |-> <<80, 80, 80>>, Start |-> <<0, 0, 0>>,
                   Select |-> <<120, 60, 30>>]
        got == received["led"]
    IN /\ \A e \in Events : LedColor(e) = colour[e]
       /\ got # <<>> => \A c \in Cells : led_buf[c] = colour[got[Len(got)]]

\* led_task holds Select's colour after an earlier Up.
C11_Witness ==
    /\ received["led"] = <<"Up", "Select">>
    /\ led_buf = Fill(<<120, 60, 30>>)
    /\ pc_led = "update"

\* C12: the registrations at startup never fail: the subscribers registered
\* on BUTTON_CHANNEL never exceed its capacity (2 in step 4, 3 in step 5),
\* the publishers never exceed 1, and main gets past every
\* subscriber().unwrap() and publisher().unwrap() with all of them
\* registered.
C12_RegistrationNeverFails ==
    LET capacity == IF env.step = 4 THEN 2 ELSE 3
    IN /\ pc_main # "panic"
       /\ subscriber_count <= capacity
       /\ publisher_count <= 1
       /\ pc_main = "loop" => subscriber_count = capacity /\ publisher_count = 1

\* Step 5 past its startup: three subscribers and the publisher.
C12_Witness ==
    /\ env.step = 5
    /\ pc_main = "loop"
    /\ subscriber_count = 3
    /\ publisher_count = 1

\* C13: a display operation of display_task that fails (blanking, text,
\* erase, an owl primitive) is only logged as a warning: the task does not
\* stop and does not retry, the remaining operations of that frame still run
\* (every operation of the frame is executed exactly once, in order), the
\* position already updated is kept, and the task awaits the next event.
C13_DisplayFailureOnlyWarns ==
    LET kinds == [i \in 1..Len(ops) |-> ops[i].op]
        failed == {i \in 1..Len(ops) : ~ops[i].ok}
    IN /\ pc_display \in {"start", "loop"}
       /\ Len(warns) = Cardinality(failed)
       /\ pc_display = "loop" =>
             /\ ENABLED DisplayEvent
             /\ event = "none" => kinds = <<"fill_solid", "text">>
             /\ event = "Left" => owl_x = Max(old_owl_x - 1, 0)
             /\ event = "Right" => owl_x = Min(old_owl_x + 1, 240)
             /\ event \notin {"none", "Left", "Right"} => owl_x = old_owl_x
             /\ event # "none" /\ owl_x = old_owl_x => ops = <<>>
             /\ event # "none" /\ owl_x # old_owl_x =>
                   /\ kinds = <<"fill_solid", "circle", "circle", "circle",
                                "circle", "line", "line", "line">>
                   /\ \A i \in 1..4 : ops[i].a >= owl_x

\* The erase and the last beak line of a frame failed: the primitives in
\* between were drawn, at the new position.
C13_Witness ==
    /\ pc_display = "loop"
    /\ event = "Left"
    /\ owl_x = 119
    /\ Len(ops) = 8
    /\ ~ops[1].ok /\ ~ops[8].ok
    /\ \A i \in 2..7 : ops[i].ok
    /\ warns = <<"Unable to clear old owl", "Unable to draw owl beak top">>

\* C14: for each event led_task receives it writes that event's colour into
\* every LED cell and then commits the cells to the hardware, and both are
\* done before it takes the next event (while the commit is pending the
\* strip still shows the previous event's colour and no event is taken); so
\* once led_task has consumed everything that was published, every cell of
\* the strip shows the colour of the last published event.
C14_FillThenCommitPerEvent ==
    /\ [](LET got == received["led"]
              n == Len(got)
              committing ==
                  pc_led = "update" =>
                      /\ n >= 1
                      /\ \A c \in Cells : led_buf[c] = LedColor(got[n])
                      /\ \A c \in Cells :
                            led_shown[c] = IF n = 1 THEN LedsOff
                                           ELSE LedColor(got[n - 1])
              committed ==
                  pc_led = "recv" /\ n >= 1 =>
                      \A c \in Cells : /\ led_buf[c] = LedColor(got[n])
                                       /\ led_shown[c] = LedColor(got[n])
              drained ==
                  pc_led = "recv" /\ n >= 1 /\ n = Len(published) =>
                      \A c \in Cells :
                          led_shown[c] = LedColor(published[Len(published)])
          IN committing /\ committed /\ drained)
    /\ [][pc_led = "update" => received["led"]' = received["led"]]_vars
    /\ [][received["led"]' # received["led"]
            => pc_led = "recv" /\ pc_led' = "update"]_vars

\* Three events were published, B last, and led_task has shown them all.
C14_Witness ==
    /\ pc_led = "recv"
    /\ Len(published) = 3
    /\ received["led"] = published
    /\ published[3] = "B" /\ published[2] = "Left"
    /\ led_shown = Fill(<<80, 80, 80>>)

\* C15: once spawned no task terminates and the system never deadlocks (no
\* task panics, each task stays in its loop, and while button_task is
\* suspended in publish or a subscriber has an event to read some task can
\* run); under fair scheduling every event a completed button wait produced
\* is eventually published and every subscriber eventually resumes and
\* reads every published event.
C15_TasksRunForever ==
    /\ [](~Panicked)
    /\ [][/\ pc_main = "loop" => pc_main' = "loop"
          /\ pc_led \in {"recv", "update"} => pc_led' \in {"recv", "update"}
          /\ pc_display \in {"start", "loop"} => pc_display' \in {"start", "loop"}
          /\ pc_button \in {"select", "publish"}
                => pc_button' \in {"select", "publish"}]_vars
    /\ []((pc_button = "publish" \/ \E s \in Registered : sub_id[s] < next_message_id)
            => ENABLED (MainRecv \/ LedRecv \/ LedUpdate \/ DisplayBoot
                        \/ DisplayRecv \/ ButtonResume))
    /\ <>[](/\ pc_main = "loop"
            /\ pc_button = "select"
            /\ Len(published) = Len(selected)
            /\ \A s \in Registered : received[s] = published)

\* button_task is suspended in publish and main has read everything: the
\* queue is full of events led_task has yet to read.
C15_Witness ==
    /\ pc_button = "publish"
    /\ Len(queue) = 8
    /\ pc_led = "update"
    /\ Len(received["main"]) = 8

\* C16: in steps 4 and 5 every subscriber (main, led_task and, in step 5,
\* display_task) is registered on BUTTON_CHANNEL before button_task can
\* publish its first event, so none misses the first event: once button_task
\* is spawned all of them are registered, and the first published event is
\* either the first one a subscriber received or still queued for it.
C16_SubscribersBeforeFirstPublish ==
    LET expected == IF env.step = 4 THEN {"main", "led"}
                    ELSE {"main", "led", "display"}
    IN /\ (pc_button # "unspawned" \/ published # <<>>) =>
             /\ Registered = expected
             /\ subscriber_count = Cardinality(expected)
       /\ published # <<>> =>
             \A s \in expected :
                IF received[s] # <<>>
                THEN received[s][1] = published[1]
                ELSE /\ sub_id[s] = 0
                     /\ queue # <<>>
                     /\ QueuedId(1) = 0
                     /\ queue[1].msg = published[1]

\* Step 5: the first event is queued for all three subscribers, none has
\* run yet.
C16_Witness ==
    /\ env.step = 5
    /\ Len(published) = 1
    /\ queue[1].cnt = 3
    /\ \A s \in Subscribers : received[s] = <<>>
    /\ pc_display = "start"

\* C17: each subscriber receives the events in the order they were
\* published, none twice and none skipped: in every reachable state what a
\* subscriber has received is a prefix of what was published.
C17_ReceivedIsPrefixOfPublished ==
    \A s \in Subscribers :
        /\ Len(received[s]) <= Len(published)
        /\ received[s] = SubSeq(published, 1, Len(received[s]))

\* Step 5, three different events published: main has received all of them,
\* led_task the first, display_task none.
C17_Witness ==
    /\ published = <<"Left", "Right", "A">>
    /\ received["main"] = published
    /\ received["led"] = <<"Left">>
    /\ received["display"] = <<>>
    /\ pc_display = "loop"

\* C18 (as found in the code): BUTTON_CHANNEL never buffers more than 8
\* events: the published events the slowest subscriber has not consumed are
\* the queued ones and number at most 8.  button_task gets suspended in
\* publish only when they number 8, and while it is suspended it starts no
\* new button wait and its publish completes only after a subscriber's read
\* has freed a slot.  (With 8 buffered and no further press button_task is
\* not suspended: it waits in select_array.)
C18_AtMostEightBuffered ==
    /\ [](LET consumed == {Len(received[s]) : s \in Registered}
              slowest == CHOOSE n \in consumed : \A m \in consumed : n <= m
              backlog == IF consumed = {} THEN 0 ELSE Len(published) - slowest
          IN /\ Len(queue) <= 8
             /\ backlog <= 8
             /\ backlog = Len(queue))
    /\ [][pc_button = "select" /\ pc_button' = "publish" => Len(queue) = 8]_vars
    /\ [][pc_button = "publish" =>
            /\ selected' = selected
            /\ published' # published => Len(queue) < 8 /\ pc_button' = "select"
            /\ published' = published => pc_button' = "publish"]_vars

\* Step 5: eight events are buffered for display_task, which has read none,
\* and button_task holds the ninth.
C18_Witness ==
    /\ env.step = 5
    /\ pc_button = "publish"
    /\ Len(selected) = 9
    /\ Len(published) = 8
    /\ Len(queue) = 8
    /\ received["display"] = <<>>

\* C18 (as claimed): at most 8 events are buffered, and whenever 8 are
\* buffered button_task is suspended in publish, in no new button wait.
C18_FullMeansSuspended ==
    /\ Len(queue) <= 8
    /\ Len(queue) = 8 => pc_button = "publish"

\* C19: the owl is on the display only after an effective position change.
\* The startup draws the blanking and the text only, and until the first
\* Left or Right that changes the position has been processed no owl
\* primitive (circle, line) is drawn, whatever events were received; the
\* first effective move draws it.
C19_NoOwlBeforeFirstMove ==
    LET owlOps == {i \in 1..Len(ops) : ops[i].op \in {"circle", "line"}}
    IN /\ pc_display = "loop" /\ event = "none" =>
             /\ Len(ops) = 2
             /\ ops[1].op = "fill_solid" /\ ops[2].op = "text"
       /\ ~moved => owlOps = {} /\ drawn = -1 /\ owl_x = 120
       /\ moved => drawn # -1

\* display_task has started and received a Stick, its position unchanged so
\* far: still no owl.
C19_Witness ==
    /\ pc_display = "loop"
    /\ event = "Stick"
    /\ ~moved
    /\ ops = <<>>
    /\ drawn = -1

\* C20: in step 3 led_task shows the RAINBOW colours in array order,
\* cyclically: the k-th colour (k from 0) it writes and commits is
\* RAINBOW[k mod 6], i.e. (80,0,0), (80,80,0), (0,80,0), (0,80,80),
\* (0,0,80), (80,0,80) and over again; each fill is committed before the
\* next colour is chosen; the task never runs out of colours (its unwrap
\* never fails) and never terminates.
C20_RainbowCycles ==
    LET rainbow == << <<80, 0, 0>>, <<80, 80, 0>>, <<0, 80, 0>>, <<0, 80, 80>>,
                      <<0, 0, 80>>, <<80, 0, 80>> >>
        kth(k) == rainbow[(k % 6) + 1]
    IN /\ pc_led3 \in {"unspawned", "start", "update", "timer"}
       /\ fills >= 1 => \A c \in Cells : led_buf[c] = kth(fills - 1)
       /\ pc_led3 = "timer" => led_shown = led_buf
       /\ pc_led3 = "update" =>
             \A c \in Cells :
                 led_shown[c] = IF fills = 1 THEN LedsOff ELSE kth(fills - 2)
       /\ pc_led3 # "unspawned" /\ fills < MaxFills
             => ENABLED (Led3Start \/ Led3Update \/ Led3Timer)

\* The eighth colour, the second of RAINBOW again, is on the strip.
C20_Witness ==
    /\ fills = 8
    /\ pc_led3 = "timer"
    /\ rainbow_iter = 2
    /\ led_shown = Fill(<<80, 80, 0>>)

====
